---- MODULE Spec2Model ----
(***************************************************************************)
(* Model of the websocket manipulator (package manipwebsocket):            *)
(* the request socket owned by connect/listen, the response channel        *)
(* registry, send, the stop closure and the Midgard token renewer.         *)
(* One goroutine per modelled thread; each action is one atomic step of    *)
(* the Go code (a step runs from one shared-memory access or blocking      *)
(* operation to the next).                                                 *)
(***************************************************************************)
EXTENDS Integers, FiniteSets, Sequences, TLC

-----------------------------------------------------------------------------
(* Bounds of the model *)

NumCalls == 2          \* concurrent calls of send (one CRUD request each)
MaxDials == 2          \* successful dials of the request socket
MaxRefresh == 1        \* ticks of the token renewer
MaxStopCalls == 2      \* invocations of the stop closure
MaxSubDials == 2       \* successful dials of the events socket
MaxPages == 3          \* pages RetrieveMany is asked for in one iteration
MaxBlock == 2          \* objects in one retrieved block

Calls == 1..NumCalls
Socks == 1..MaxDials
SubSocks == 1..MaxSubDials

-----------------------------------------------------------------------------
(* Values *)

NilConn == 0                       \* s.ws == nil
NilChan == 0                       \* a nil channel (map miss)
NoOwner == "free"                  \* wsLock not held

\* elemental.NewRequest gives every request a fresh UUID: the requestID of
\* the request built by call c is c; UnknownRID is an id no call ever uses.
RequestID(c) == c
UnknownRID == NumCalls + 1

StatusCodes == {199, 200, 299, 300, 301}     \* statusCode of a response frame
HandshakeCodes == {200, 401}                 \* statusCode of the handshake frame
StatusOK == 200

InitialToken == "T0"
EmptyToken == ""                   \* zero value returned with an error
IssuedToken(n) == IF n = 1 THEN "T1" ELSE IF n = 2 THEN "T2" ELSE "T3"

NoResponse == [rid |-> 0, status |-> 0]

EventIdentities == {"a", "b"}      \* event.Identity of the events the server pushes
IdentityList == {"a"}              \* the names in a non-empty identities argument
NoEvent == "none"

iterDefaultBlockSize == 10000
BlockSizeArgs == {-1, 0, 1, 2}     \* blockSize arguments of IterFunc
ContextPages == {0, 7}             \* page of the mctx argument (0: no page set)

-----------------------------------------------------------------------------
VARIABLES
    \* websocketManipulator fields
    ws,            \* s.ws: NilConn or the socket it points to
    wsLock,        \* holder of s.wsLock
    running,       \* s.running
    registry,      \* s.responsesChanRegistry: requestID -> channel (its call)
    password,      \* s.password
    \* request sockets that were dialed (the peer's side included)
    sock,          \* per socket: "none" | "open" | "dead" | "closed"
    hs,            \* per socket: handshake frame "pending" | "ok" (200) | "rejected"
    stok,          \* per socket: token of the URL it was dialed with
    wire,          \* requestIDs of the frames the peer of s.ws has received
    \* constructor / listen goroutine (connect runs inside both)
    lpc,           \* position
    inCtor,        \* TRUE until the constructor has returned the manipulator
    url,           \* connect: token put in the URL
    resp,          \* listen: the response frame just read
    lch,           \* listen: the channel responseChannelForID returned
    \* callers of send
    pc,            \* per call: position
    reqTok,        \* per call: req.Password
    got,           \* per call: response taken from its channel
    result,        \* per call: what send returned
    \* stop closure
    spc,           \* position of the thread that invokes stop
    stopCalls,     \* invocations of stop that have returned
    \* Midgard variant
    midgard,       \* TRUE for NewWebSocketManipulatorWithMidgardCertAuthentication
    rpc,           \* position of renewMidgardToken
    rtok,          \* renewMidgardToken: token returned by IssueFromCertificate
    refreshes,     \* ticks so far
    \* process
    crashed,       \* a goroutine panicked
    \* history
    afterStop,     \* calls that entered send after a stop had returned
    cleared,       \* waiting calls whose waiter connect has cleared
    ndeliv,        \* per call: responses taken from its channel
    stopDials      \* sockets dialed after a stop had returned

VARIABLES
    \* Subscribe: arguments
    identities,    \* the identities argument: "nil" | "empty" | "list"
    recoHandler,   \* TRUE iff recoHandler != nil
    \* Subscribe: variables shared by the worker and disconnectFunc
    sws,           \* ws: NilConn or the events socket it points to
    stopped,       \* stopped
    needsPublish,  \* needsPublishDisconnectFunc
    \* events sockets that were dialed
    ssock,         \* per socket: "none" | "open" | "dead" | "closed"
    sstok,         \* per socket: token of the URL it was dialed with
    \* Subscribe: caller and worker goroutine
    subpc,         \* caller of Subscribe: "idle" | "waiting" | "returned"
    wpc,           \* position of the worker
    surl,          \* worker: token put in the URL
    needsReco,     \* worker: needsReconnectionHandlerCall
    rerr,          \* worker: err of the last Receive
    rev,           \* worker: identity of the event last received
    \* caller of the unsubscribe handle (disconnectFunc)
    upc,           \* position
    uws,           \* the ws it saw in ws != nil
    \* history of the handlers' invocations
    rxErrs,        \* calls of handler(nil, err)
    recoCalls,     \* calls of recoHandler()
    seen,          \* identities of the events received while not stopped
    handled        \* identities of the events passed to handler(event, nil)

VARIABLES
    \* Retrieve, Create, Update, Delete called with objects o1..oN; the round
    \* trip of object i is call i of send
    nobjects,      \* len(objects)
    mpc,           \* position of the caller: "idle" | "m_request" | "m_send" | "returned"
    mi,            \* index of the object of the current iteration
    mres,          \* what the operation returned
    \* DeleteMany, Assign, Increment
    niop,          \* the operation called last
    nires,         \* what it returned
    \* IterFunc
    argBlockSize,  \* history: blockSize as the caller passed it
    blockSize,     \* blockSize
    ctxPage,       \* page information of the argument mctx (0: none)
    ipc,           \* position of IterFunc
    page,          \* page
    objects,       \* len(objects.List()) of the block just retrieved
    requested,     \* <<page, pageSize>> of the contexts passed to RetrieveMany
    iterated,      \* pages of the blocks passed to iteratorFunc
    ires,          \* what IterFunc returned
    \* Iter
    viaIter,       \* TRUE iff IterFunc was called by Iter
    collected,     \* len of the list Iter's closure appends the blocks to
    dest           \* the list Iter returned: "none" | "nil" | "list"

VARIABLES
    \* the registry's methods called on their own
    lastOp,        \* the last call: method, requestID and channel
    \* runQueryFunc (manipmongo)
    mctxRetryFunc,     \* TRUE iff mctx.RetryFunc() != nil
    defaultRetryFunc,  \* TRUE iff defaultRetryFunc != nil
    hasDeadline,       \* TRUE iff mctx.Context() has a deadline
    qpc,           \* position of runQueryFunc
    try,           \* try
    qerr,          \* err of the last operationFunc(), as handleQueryError classified it
    qres,          \* what runQueryFunc returned
    attempts,      \* history: calls of operationFunc
    retryCalls,    \* history: tries passed to the retry functions, with the function called
    \* memdbManipulator (manipmemory)
    db,            \* objects a read transaction of s.db sees
    txnRegistry,   \* s.txnRegistry: TransactionID -> write transaction
    wrote,         \* history: per TransactionID what was written under it
    mret           \* the last operation and what it returned


vars == <<ws, wsLock, running, registry, password, sock, hs, stok, wire,
          lpc, inCtor, url, resp, lch, pc, reqTok, got, result,
          spc, stopCalls, midgard, rpc, rtok, refreshes, crashed,
          afterStop, cleared, ndeliv, stopDials,
          identities, recoHandler, sws, stopped, needsPublish, ssock, sstok,
          subpc, wpc, surl, needsReco, rerr, rev, upc, uws,
          rxErrs, recoCalls, seen, handled,
          nobjects, mpc, mi, mres, niop, nires,
          argBlockSize, blockSize, ctxPage, ipc, page, objects, requested,
          iterated, ires, viaIter, collected, dest,
          lastOp, mctxRetryFunc, defaultRetryFunc, hasDeadline, qpc, try, qerr,
          qres, attempts, retryCalls, db, txnRegistry, wrote, mret>>

connVars == <<ws, wsLock, running, sock, hs, stok, wire>>
listenVars == <<lpc, inCtor, url, resp, lch>>
callVars == <<pc, reqTok, got, result>>
stopVars == <<spc, stopCalls>>
renewVars == <<rpc, rtok, refreshes>>
histVars == <<afterStop, cleared, ndeliv, stopDials>>

subVars == <<identities, recoHandler, sws, stopped, needsPublish, ssock, sstok,
             subpc, wpc, surl, needsReco, rerr, rev, upc, uws,
             rxErrs, recoCalls, seen, handled>>

multiVars == <<nobjects, mpc, mi, mres>>
niVars == <<niop, nires>>
iterVars == <<argBlockSize, blockSize, ctxPage, ipc, page, objects, requested,
              iterated, ires, viaIter, collected, dest>>

\* what the request socket's goroutines leave alone, and what Subscribe's do
regVars == <<lastOp>>
queryVars == <<mctxRetryFunc, defaultRetryFunc, hasDeadline, qpc, try, qerr,
               qres, attempts, retryCalls>>
memVars == <<db, txnRegistry, wrote, mret>>

\* the state of the code outside the websocket manipulator and IterFunc
libVars == <<regVars, queryVars, memVars>>

restVars == <<multiVars, niVars, iterVars, libVars>>
extVars == <<subVars, restVars>>

coreVars == <<ws, wsLock, running, registry, password, sock, hs, stok, wire,
              lpc, inCtor, url, resp, lch, pc, reqTok, got, result,
              spc, stopCalls, midgard, rpc, rtok, refreshes, crashed,
              afterStop, cleared, ndeliv, stopDials>>

-----------------------------------------------------------------------------
(* Pure helpers *)

NumDialed == Cardinality({k \in Socks : sock[k] # "none"})

\* (variant: every waiter stored under one shared key instead of its requestID)
registerUnderSharedKey(reg, rid, ch) ==
    [r \in (DOMAIN reg) \cup {1} |-> IF r = 1 THEN ch ELSE reg[r]]

\* s.responsesChanRegistry[rid] = ch
registerResponseChannel(reg, rid, ch) ==
    [r \in (DOMAIN reg) \cup {rid} |-> IF r = rid THEN ch ELSE reg[r]]

\* (variant: the entry is not deleted)
unregisterNothing(reg, rid) == reg

\* delete(s.responsesChanRegistry, rid)
unregisterResponseChannel(reg, rid) ==
    [r \in (DOMAIN reg) \ {rid} |-> reg[r]]

\* s.responsesChanRegistry = map[string]chan *elemental.Response{}
unregisterAllResponseChannels == [r \in {} |-> NilChan]

\* (variant: a miss falls back to some registered channel)
responseChannelOrAny(reg, rid) ==
    IF rid \in DOMAIN reg THEN reg[rid]
    ELSE IF DOMAIN reg # {} THEN reg[CHOOSE r \in DOMAIN reg : TRUE]
    ELSE NilChan

\* return s.responsesChanRegistry[rid]
responseChannelForID(reg, rid) ==
    IF rid \in DOMAIN reg THEN reg[rid] ELSE NilChan

\* send: the response is returned unless StatusCode < 200 || StatusCode > 300
IsReturned(status) == ~(status < 200 \/ status > 300)

\* (changed) the password the constructor was given, kept in the URL
constructorPassword == InitialToken

\* return s.password
currentPassword == password

\* (variant: any status below 500 is taken as an accepted handshake)
HandshakeAcceptedBelow500(code) == code < 500

\* connect: the handshake is refused if response.StatusCode != http.StatusOK
HandshakeAccepted(code) == code = StatusOK

-----------------------------------------------------------------------------
InitState ==
    /\ ws = NilConn
    /\ wsLock = NoOwner
    /\ running = TRUE
    /\ registry = unregisterAllResponseChannels
    /\ password = InitialToken
    /\ sock = [k \in Socks |-> "none"]
    /\ hs = [k \in Socks |-> "pending"]
    /\ stok = [k \in Socks |-> EmptyToken]
    /\ wire = {}
    /\ lpc = "c_clear"
    /\ inCtor = TRUE
    /\ url = EmptyToken
    /\ resp = NoResponse
    /\ lch = NilChan
    /\ pc = [c \in Calls |-> "idle"]
    /\ reqTok = [c \in Calls |-> EmptyToken]
    /\ got = [c \in Calls |-> NoResponse]
    /\ result = [c \in Calls |-> "none"]
    /\ spc = "idle"
    /\ stopCalls = 0
    /\ rpc = "none"
    /\ rtok = EmptyToken
    /\ refreshes = 0
    /\ crashed = FALSE
    /\ afterStop = {}
    /\ cleared = {}
    /\ ndeliv = [c \in Calls |-> 0]
    /\ stopDials = {}

\* Subscribe has not been called
NoSubscription ==
    /\ identities = "nil"
    /\ recoHandler = TRUE
    /\ sws = NilConn
    /\ stopped = FALSE
    /\ needsPublish = TRUE
    /\ ssock = [j \in SubSocks |-> "none"]
    /\ sstok = [j \in SubSocks |-> EmptyToken]
    /\ subpc = "idle"
    /\ wpc = "none"
    /\ surl = EmptyToken
    /\ needsReco = FALSE
    /\ rerr = FALSE
    /\ rev = NoEvent
    /\ upc = "idle"
    /\ uws = NilConn
    /\ rxErrs = 0
    /\ recoCalls = 0
    /\ seen = {}
    /\ handled = {}

\* no operation on objects has been called
NoObjectsCall ==
    /\ mpc = "idle"
    /\ mi = 0
    /\ mres = "none"

\* DeleteMany, Assign and Increment have not been called
NoUnimplementedCall ==
    /\ niop = "none"
    /\ nires = "none"

\* IterFunc has not been called
NoIteration ==
    /\ argBlockSize = 0
    /\ blockSize = 0
    /\ ctxPage = 0
    /\ ipc = "idle"
    /\ page = 0
    /\ objects = 0
    /\ requested = <<>>
    /\ iterated = <<>>
    /\ ires = "none"
    /\ viaIter = FALSE
    /\ collected = 0
    /\ dest = "none"

\* the registry's methods have not been called on their own
NoRegistryCall == lastOp = [op |-> "none", rid |-> 0, ch |-> NilChan]

\* runQueryFunc has not been called
NoQuery ==
    /\ mctxRetryFunc = FALSE
    /\ defaultRetryFunc = FALSE
    /\ hasDeadline = FALSE
    /\ qpc = "idle"
    /\ try = 0
    /\ qerr = "none"
    /\ qres = [out |-> "none", err |-> "none"]
    /\ attempts = 0
    /\ retryCalls = <<>>

\* NewMemoryManipulator: an empty database and an empty txnRegistry
NewMemoryManipulator ==
    /\ db = {}
    /\ txnRegistry = [t \in {} |-> 0]
    /\ wrote = [t \in {} |-> 0]
    /\ mret = [op |-> "none", tid |-> "", result |-> "none"]

NoLibraryCall ==
    /\ NoRegistryCall
    /\ NoQuery
    /\ NewMemoryManipulator

NoOperation ==
    /\ nobjects = 0
    /\ NoObjectsCall
    /\ NoUnimplementedCall
    /\ NoIteration
    /\ NoLibraryCall

-----------------------------------------------------------------------------
(* connect, run by the constructor and by listen's reconnect loop *)

Alive == ~crashed

\* connect returns an error: the constructor returns (nil, nil, err); the
\* reconnect loop waits 5s and calls connect again
ConnectError ==
    /\ lpc' = IF inCtor THEN "ctor_failed" ELSE "c_clear"
    /\ UNCHANGED <<inCtor, rpc>>

\* connect returns nil: the constructor starts listen (and, in the Midgard
\* variant, renewMidgardToken) and returns; the reconnect loop breaks
ConnectSuccess ==
    /\ lpc' = "l_read"
    /\ inCtor' = FALSE
    /\ rpc' = IF inCtor /\ midgard THEN "r_select" ELSE rpc

\* s.unregisterAllResponseChannels()
ConnectClear ==
    /\ Alive
    /\ lpc = "c_clear"
    /\ registry' = unregisterAllResponseChannels
    /\ cleared' = cleared \cup
          {c \in Calls : pc[c] = "s_wait" /\ RequestID(c) \in DOMAIN registry}
    /\ lpc' = "c_url"
    /\ UNCHANGED <<connVars, password, inCtor, url, resp, lch, callVars,
                   stopVars, midgard, renewVars, crashed, afterStop, ndeliv,
                   stopDials>>
    /\ UNCHANGED extVars

\* url = ... + "/wsapi?token=" + s.currentPassword() + ...; NewConfig under wsLock
ConnectURL ==
    /\ Alive
    /\ lpc = "c_url"
    /\ wsLock = NoOwner
    /\ url' = currentPassword
    /\ lpc' = "c_lock"
    /\ UNCHANGED <<connVars, registry, password, inCtor, resp, lch, callVars,
                   stopVars, midgard, renewVars, crashed, histVars>>
    /\ UNCHANGED extVars

\* s.wsLock.Lock() before the dial
ConnectLock ==
    /\ Alive
    /\ lpc = "c_lock"
    /\ wsLock = NoOwner
    /\ wsLock' = "connect"
    /\ lpc' = "c_dial"
    /\ UNCHANGED <<ws, running, sock, hs, stok, wire, registry, password,
                   inCtor, url, resp, lch, callVars, stopVars, midgard,
                   renewVars, crashed, histVars>>
    /\ UNCHANGED extVars

\* s.ws, err = websocket.DialConfig(config); s.wsLock.Unlock()
ConnectDial ==
    /\ Alive
    /\ lpc = "c_dial"
    /\ wsLock' = NoOwner
    /\ \/ /\ NumDialed < MaxDials
          /\ LET k == NumDialed + 1 IN
               /\ ws' = k
               /\ sock' = [sock EXCEPT ![k] = "open"]
               /\ stok' = [stok EXCEPT ![k] = url]
               /\ wire' = {}
               /\ stopDials' = IF stopCalls > 0 THEN stopDials \cup {k}
                                                ELSE stopDials
          /\ lpc' = "c_hs"
          /\ UNCHANGED <<inCtor, rpc>>
       \/ /\ ws' = NilConn
          /\ ConnectError
          /\ UNCHANGED <<sock, stok, wire, stopDials>>
    /\ UNCHANGED <<running, hs, registry, password, url, resp, lch,
                   callVars, stopVars, midgard, rtok, refreshes, crashed,
                   afterStop, cleared, ndeliv>>
    /\ UNCHANGED extVars

\* websocket.JSON.Receive(s.ws, &response); response.StatusCode != http.StatusOK
ConnectHandshake ==
    /\ Alive
    /\ lpc = "c_hs"
    /\ \/ /\ sock[ws] = "open"
          /\ \E code \in HandshakeCodes :
               /\ hs' = [hs EXCEPT ![ws] =
                            IF code = StatusOK THEN "ok" ELSE "rejected"]
               /\ IF HandshakeAccepted(code) THEN ConnectSuccess
                                              ELSE ConnectError
          /\ UNCHANGED sock
       \/ /\ sock[ws] = "open"
          /\ sock' = [sock EXCEPT ![ws] = "dead"]
          /\ ConnectError
          /\ UNCHANGED hs
       \/ /\ sock[ws] \in {"dead", "closed"}
          /\ ConnectError
          /\ UNCHANGED <<sock, hs>>
    /\ UNCHANGED <<ws, wsLock, running, stok, wire, registry, password, url,
                   resp, lch, callVars, stopVars, midgard, rtok, refreshes,
                   crashed, histVars>>
    /\ UNCHANGED extVars

-----------------------------------------------------------------------------
(* listen *)

\* websocket.JSON.Receive(s.ws, &response) returns a frame the server sent:
\* a response to a request written on this socket (possibly again), or a
\* frame with a requestID nobody waits for
ListenReadFrame ==
    /\ Alive
    /\ lpc = "l_read"
    /\ sock[ws] = "open"
    /\ \E rid \in wire \cup {UnknownRID}, status \in StatusCodes :
         resp' = [rid |-> rid, status |-> status]
    /\ lpc' = "l_lookup"
    /\ UNCHANGED <<connVars, registry, password, inCtor, url, lch, callVars,
                   stopVars, midgard, renewVars, crashed, histVars>>
    /\ UNCHANGED extVars

\* websocket.JSON.Receive(s.ws, &response) fails: the connection died
ListenReadDied ==
    /\ Alive
    /\ lpc = "l_read"
    /\ sock[ws] = "open"
    /\ sock' = [sock EXCEPT ![ws] = "dead"]
    /\ lpc' = "l_running"
    /\ UNCHANGED <<ws, wsLock, running, hs, stok, wire, registry, password,
                   inCtor, url, resp, lch, callVars, stopVars, midgard,
                   renewVars, crashed, histVars>>
    /\ UNCHANGED extVars

\* websocket.JSON.Receive(s.ws, &response) fails: the socket was closed
ListenReadClosed ==
    /\ Alive
    /\ lpc = "l_read"
    /\ sock[ws] \in {"dead", "closed"}
    /\ lpc' = "l_running"
    /\ UNCHANGED <<connVars, registry, password, inCtor, url, resp, lch,
                   callVars, stopVars, midgard, renewVars, crashed, histVars>>
    /\ UNCHANGED extVars

\* ch := s.responseChannelForID(response.Request.RequestID); ch != nil
ListenLookup ==
    /\ Alive
    /\ lpc = "l_lookup"
    /\ LET ch == responseChannelForID(registry, resp.rid) IN
         /\ lch' = ch
         /\ lpc' = IF ch # NilChan THEN "l_send" ELSE "l_read"
         /\ resp' = IF ch # NilChan THEN resp ELSE NoResponse
    /\ UNCHANGED <<connVars, registry, password, inCtor, url, callVars,
                   stopVars, midgard, renewVars, crashed, histVars>>
    /\ UNCHANGED extVars

\* s.runningLock.Lock(); if !s.running { return }
ListenCheckRunning ==
    /\ Alive
    /\ lpc = "l_running"
    /\ lpc' = IF running THEN "c_clear" ELSE "l_exit"
    /\ UNCHANGED <<connVars, registry, password, inCtor, url, resp, lch,
                   callVars, stopVars, midgard, renewVars, crashed, histVars>>
    /\ UNCHANGED extVars

-----------------------------------------------------------------------------
(* send, called by RetrieveMany, Retrieve, Create, Update, Delete and Count *)

\* the CRUD method builds the request (req.Password = s.currentPassword())
\* and calls s.send(req)
Call(c) ==
    /\ Alive
    /\ ~inCtor
    /\ pc[c] = "idle"
    /\ reqTok' = [reqTok EXCEPT ![c] = currentPassword]
    /\ pc' = [pc EXCEPT ![c] = "s_check"]
    /\ afterStop' = IF stopCalls > 0 THEN afterStop \cup {c} ELSE afterStop
    /\ UNCHANGED <<connVars, registry, password, listenVars, got, result,
                   stopVars, midgard, renewVars, crashed, cleared, ndeliv,
                   stopDials>>
    /\ UNCHANGED extVars

\* if s.ws == nil { return nil, CannotCommunicate("Websocket not initialized") }
SendCheck(c) ==
    /\ Alive
    /\ pc[c] = "s_check"
    /\ IF ws = NilConn
       THEN /\ pc' = [pc EXCEPT ![c] = "done"]
            /\ result' = [result EXCEPT ![c] = "notInitialized"]
       ELSE /\ pc' = [pc EXCEPT ![c] = "s_write"]
            /\ UNCHANGED result
    /\ UNCHANGED <<connVars, registry, password, listenVars, reqTok, got,
                   stopVars, midgard, renewVars, crashed, histVars>>
    /\ UNCHANGED extVars

\* websocket.JSON.Send(s.ws, request): s.ws is read again, without wsLock.
\* A nil s.ws (a failed redial since the check) is dereferenced: panic.
\* A closed socket refuses the write; on a dead connection the write either
\* fails or is buffered and lost.
SendWrite(c) ==
    /\ Alive
    /\ pc[c] = "s_write"
    /\ IF ws = NilConn
       THEN /\ crashed' = TRUE
            /\ pc' = [pc EXCEPT ![c] = "panic"]
            /\ UNCHANGED <<wire, result>>
       ELSE /\ UNCHANGED crashed
            /\ \/ /\ sock[ws] = "open"
                  /\ wire' = wire \cup {RequestID(c)}
                  /\ pc' = [pc EXCEPT ![c] = "s_register"]
                  /\ UNCHANGED result
               \/ /\ sock[ws] = "dead"
                  /\ pc' = [pc EXCEPT ![c] = "s_register"]
                  /\ UNCHANGED <<wire, result>>
               \/ /\ sock[ws] \in {"dead", "closed"}
                  /\ pc' = [pc EXCEPT ![c] = "done"]
                  /\ result' = [result EXCEPT ![c] = "writeError"]
                  /\ UNCHANGED wire
    /\ UNCHANGED <<ws, wsLock, running, sock, hs, stok, registry, password,
                   listenVars, reqTok, got, stopVars, midgard, renewVars,
                   histVars>>
    /\ UNCHANGED extVars

\* ch := s.registerResponseChannel(request.RequestID)
SendRegister(c) ==
    /\ Alive
    /\ pc[c] = "s_register"
    /\ registry' = registerResponseChannel(registry, RequestID(c), c)
    /\ pc' = [pc EXCEPT ![c] = "s_wait"]
    /\ UNCHANGED <<connVars, password, listenVars, reqTok, got, result,
                   stopVars, midgard, renewVars, crashed, histVars>>
    /\ UNCHANGED extVars

\* case response := <-ch, together with listen's ch <- response: the channel
\* is unbuffered, so the two meet in one step
SendReceive(c) ==
    /\ Alive
    /\ pc[c] = "s_wait"
    /\ lpc = "l_send"
    /\ lch = c
    /\ got' = [got EXCEPT ![c] = resp]
    /\ ndeliv' = [ndeliv EXCEPT ![c] = @ + 1]
    /\ result' = [result EXCEPT ![c] =
                    IF IsReturned(resp.status) THEN "response" ELSE "decodedError"]
    /\ pc' = [pc EXCEPT ![c] = "s_unreg"]
    /\ lpc' = "l_read"
    /\ resp' = NoResponse
    /\ lch' = NilChan
    /\ cleared' = cleared \ {c}
    /\ UNCHANGED <<connVars, registry, password, inCtor, url,
                   reqTok, stopVars, midgard, renewVars, crashed, afterStop,
                   stopDials>>
    /\ UNCHANGED extVars

\* (variant: the timer is only armed while the waiter is registered)
SendTimeoutIfRegistered(c) ==
    /\ Alive
    /\ pc[c] = "s_wait"
    /\ RequestID(c) \in DOMAIN registry
    /\ result' = [result EXCEPT ![c] = "timeout"]
    /\ pc' = [pc EXCEPT ![c] = "s_unreg"]
    /\ cleared' = cleared \ {c}
    /\ UNCHANGED <<connVars, registry, password, listenVars, reqTok, got,
                   stopVars, midgard, renewVars, crashed, afterStop, ndeliv,
                   stopDials>>
    /\ UNCHANGED extVars

\* case <-time.After(30 * time.Second)
SendTimeout(c) ==
    /\ Alive
    /\ pc[c] = "s_wait"
    /\ result' = [result EXCEPT ![c] = "timeout"]
    /\ pc' = [pc EXCEPT ![c] = "s_unreg"]
    /\ cleared' = cleared \ {c}
    /\ UNCHANGED <<connVars, registry, password, listenVars, reqTok, got,
                   stopVars, midgard, renewVars, crashed, afterStop, ndeliv,
                   stopDials>>
    /\ UNCHANGED extVars

\* defer s.unregisterResponseChannel(request.RequestID)
SendUnregister(c) ==
    /\ Alive
    /\ pc[c] = "s_unreg"
    /\ registry' = unregisterResponseChannel(registry, RequestID(c))
    /\ pc' = [pc EXCEPT ![c] = "done"]
    /\ UNCHANGED <<connVars, password, listenVars, reqTok, got, result,
                   stopVars, midgard, renewVars, crashed, histVars>>
    /\ UNCHANGED extVars

-----------------------------------------------------------------------------
(* Retrieve, Create, Update, Delete on objects o1..oN; DeleteMany, Assign,   *)
(* Increment                                                                 *)

NotImplementedOps == {"DeleteMany", "Assign", "Increment"}

\* the operation is called: for _, object := range objects
ObjectsCall ==
    /\ Alive
    /\ ~inCtor
    /\ mpc = "idle"
    /\ IF nobjects = 0
         THEN /\ mpc' = "returned"
              /\ mres' = "nil"
              /\ UNCHANGED mi
         ELSE /\ mpc' = "m_request"
              /\ mi' = 1
              /\ UNCHANGED mres
    /\ UNCHANGED nobjects
    /\ UNCHANGED <<coreVars, subVars, niVars, iterVars, libVars>>

\* req := elemental.NewRequest(); ... req.Password = s.currentPassword();
\* populateRequestFromContext and req.Encode may fail; then s.send(req)
ObjectsRequest ==
    /\ Alive
    /\ mpc = "m_request"
    /\ \/ /\ mres' = "cannotMarshal"
          /\ mpc' = "returned"
          /\ UNCHANGED <<pc, reqTok, afterStop>>
       \/ /\ reqTok' = [reqTok EXCEPT ![mi] = currentPassword]
          /\ pc' = [pc EXCEPT ![mi] = "s_check"]
          /\ afterStop' = IF stopCalls > 0 THEN afterStop \cup {mi}
                                           ELSE afterStop
          /\ mpc' = "m_send"
          /\ UNCHANGED mres
    /\ UNCHANGED <<nobjects, mi>>
    /\ UNCHANGED <<connVars, registry, password, listenVars, got, result,
                   stopVars, midgard, renewVars, crashed, cleared, ndeliv,
                   stopDials>>
    /\ UNCHANGED <<subVars, niVars, iterVars, libVars>>

\* (changed) an error of send does not end the loop
ObjectsResponseContinue ==
    /\ Alive
    /\ mpc = "m_send"
    /\ pc[mi] = "done"
    /\ \/ /\ result[mi] = "response"
          /\ mres' = "cannotUnmarshal"
          /\ mpc' = "returned"
          /\ UNCHANGED mi
       \/ /\ IF mi = nobjects
               THEN /\ mres' = IF result[mi] = "response" THEN "nil"
                                                          ELSE result[mi]
                    /\ mpc' = "returned"
                    /\ UNCHANGED mi
               ELSE /\ mi' = mi + 1
                    /\ mpc' = "m_request"
                    /\ UNCHANGED mres
    /\ UNCHANGED nobjects
    /\ UNCHANGED <<coreVars, subVars, niVars, iterVars, libVars>>

\* resp, err := s.send(req); if err != nil { return err }
\* if err := resp.Decode(&object); err != nil { return ErrCannotUnmarshal }
\* and the next object, or return nil after the last
ObjectsResponse ==
    /\ Alive
    /\ mpc = "m_send"
    /\ pc[mi] = "done"
    /\ IF result[mi] # "response"
         THEN /\ mres' = result[mi]
              /\ mpc' = "returned"
              /\ UNCHANGED mi
         ELSE \/ /\ mres' = "cannotUnmarshal"
                 /\ mpc' = "returned"
                 /\ UNCHANGED mi
              \/ /\ IF mi = nobjects
                      THEN /\ mres' = "nil"
                           /\ mpc' = "returned"
                           /\ UNCHANGED mi
                      ELSE /\ mi' = mi + 1
                           /\ mpc' = "m_request"
                           /\ UNCHANGED mres
    /\ UNCHANGED nobjects
    /\ UNCHANGED <<coreVars, subVars, niVars, iterVars, libVars>>

\* (changed) the operation writes a request frame before it returns
NotImplementedAfterWrite(op) ==
    /\ Alive
    /\ ~inCtor
    /\ niop' = op
    /\ nires' = "notImplemented"
    /\ wire' = wire \cup {UnknownRID}
    /\ UNCHANGED <<ws, wsLock, running, registry, password, sock, hs, stok,
                   lpc, inCtor, url, resp, lch, pc, reqTok, got, result,
                   spc, stopCalls, midgard, rpc, rtok, refreshes, crashed,
                   afterStop, cleared, ndeliv, stopDials>>
    /\ UNCHANGED <<subVars, multiVars, iterVars, libVars>>

\* return manipulate.NewErrNotImplemented(...)
NotImplemented(op) ==
    /\ Alive
    /\ ~inCtor
    /\ niop' = op
    /\ nires' = "notImplemented"
    /\ UNCHANGED <<coreVars, subVars, multiVars, iterVars, libVars>>

-----------------------------------------------------------------------------
(* IterFunc over a Manipulator whose RetrieveMany returns a block of any     *)
(* length, or an error                                                       *)

\* mctx.Derive(ContextOptionPage(page, blockSize)): a copy of the context
\* whose page and page size are the given ones
Derive(mctxPage, p, size) == [page |-> p, pageSize |-> size]

\* (changed) the blockSize argument is used as it is
IterCallAnyBlockSize ==
    /\ ipc = "idle"
    /\ UNCHANGED blockSize
    /\ page' = 0
    /\ ipc' = "i_retrieve"
    /\ UNCHANGED <<argBlockSize, ctxPage, objects, requested, iterated, ires,
                   viaIter, collected, dest>>
    /\ UNCHANGED <<coreVars, subVars, multiVars, niVars, libVars>>

\* if blockSize <= 0 { blockSize = iterDefaultBlockSize }; var page int
IterCall ==
    /\ ipc = "idle"
    /\ blockSize' = IF blockSize <= 0 THEN iterDefaultBlockSize ELSE blockSize
    /\ page' = 0
    /\ ipc' = "i_retrieve"
    /\ UNCHANGED <<argBlockSize, ctxPage, objects, requested, iterated, ires,
                   viaIter, collected, dest>>
    /\ UNCHANGED <<coreVars, subVars, multiVars, niVars, libVars>>

\* page++; objects := identifiablesTemplate.Copy(); manipulator.RetrieveMany(
\* mctx.Derive(ContextOptionPage(page, blockSize)), objects);
\* if len(objects.List()) == 0 { return nil }
IterRetrieve ==
    /\ ipc = "i_retrieve"
    /\ page < MaxPages
    /\ page' = page + 1
    /\ requested' = Append(requested, Derive(ctxPage, page + 1, blockSize))
    /\ \/ /\ ires' = "retrieveError"
          /\ ipc' = "returned"
          /\ UNCHANGED objects
       \/ /\ objects' = 0
          /\ ires' = "nil"
          /\ ipc' = "returned"
       \/ /\ page + 1 < MaxPages
          /\ \E n \in 1..MaxBlock : objects' = n
          /\ ipc' = "i_iterate"
          /\ UNCHANGED ires
    /\ UNCHANGED <<argBlockSize, blockSize, ctxPage, iterated, viaIter,
                   collected, dest>>
    /\ UNCHANGED <<coreVars, subVars, multiVars, niVars, libVars>>

\* (changed) an error of iteratorFunc does not end the loop
IterBlockGoesOn ==
    /\ ipc = "i_iterate"
    /\ iterated' = Append(iterated, page)
    /\ collected' = IF viaIter THEN collected + objects ELSE collected
    /\ \/ /\ ~viaIter
          /\ ires' = "iterError"
          /\ ipc' = "i_retrieve"
       \/ /\ ipc' = "i_retrieve"
          /\ UNCHANGED ires
    /\ UNCHANGED <<argBlockSize, blockSize, ctxPage, page, objects, requested,
                   viaIter, dest>>
    /\ UNCHANGED <<coreVars, subVars, multiVars, niVars, libVars>>

\* if err := iteratorFunc(objects); err != nil { return fmt.Errorf(...) }
\* Iter's iteratorFunc appends the block to its list and returns nil
IterBlock ==
    /\ ipc = "i_iterate"
    /\ iterated' = Append(iterated, page)
    /\ collected' = IF viaIter THEN collected + objects ELSE collected
    /\ \/ /\ ~viaIter
          /\ ires' = "iterError"
          /\ ipc' = "returned"
       \/ /\ ipc' = "i_retrieve"
          /\ UNCHANGED ires
    /\ UNCHANGED <<argBlockSize, blockSize, ctxPage, page, objects, requested,
                   viaIter, dest>>
    /\ UNCHANGED <<coreVars, subVars, multiVars, niVars, libVars>>

\* Iter: if err := IterFunc(...); err != nil { return nil, err }
\* return identifiablesTemplate, nil
IterReturn ==
    /\ viaIter
    /\ ipc = "returned"
    /\ dest = "none"
    /\ dest' = IF ires # "nil" THEN "nil" ELSE "list"
    /\ UNCHANGED <<argBlockSize, blockSize, ctxPage, ipc, page, objects,
                   requested, iterated, ires, viaIter, collected>>
    /\ UNCHANGED <<coreVars, subVars, multiVars, niVars, libVars>>

-----------------------------------------------------------------------------
(* the methods of the response channel registry, called in any order *)

RequestIDs == 1..UnknownRID

\* ch := make(chan *elemental.Response); s.responsesChanRegistry[rid] = ch
RegistryRegister(rid, ch) ==
    /\ rid \in DOMAIN registry => registry[rid] # ch
    /\ registry' = registerResponseChannel(registry, rid, ch)
    /\ lastOp' = [op |-> "register", rid |-> rid, ch |-> ch]
    /\ UNCHANGED <<connVars, password, listenVars, callVars, stopVars, midgard,
                   renewVars, crashed, histVars>>
    /\ UNCHANGED <<subVars, multiVars, niVars, iterVars, queryVars, memVars>>

\* delete(s.responsesChanRegistry, rid)
RegistryUnregister(rid) ==
    /\ registry' = unregisterResponseChannel(registry, rid)
    /\ lastOp' = [op |-> "unregister", rid |-> rid, ch |-> NilChan]
    /\ UNCHANGED <<connVars, password, listenVars, callVars, stopVars, midgard,
                   renewVars, crashed, histVars>>
    /\ UNCHANGED <<subVars, multiVars, niVars, iterVars, queryVars, memVars>>

\* s.responsesChanRegistry = map[string]chan *elemental.Response{}
RegistryClear ==
    /\ registry' = unregisterAllResponseChannels
    /\ lastOp' = [op |-> "clear", rid |-> 0, ch |-> NilChan]
    /\ UNCHANGED <<connVars, password, listenVars, callVars, stopVars, midgard,
                   renewVars, crashed, histVars>>
    /\ UNCHANGED <<subVars, multiVars, niVars, iterVars, queryVars, memVars>>

\* return s.responsesChanRegistry[rid]
RegistryLookup(rid) ==
    /\ lastOp' = [op |-> "lookup", rid |-> rid,
                  ch |-> responseChannelForID(registry, rid)]
    /\ UNCHANGED coreVars
    /\ UNCHANGED <<subVars, multiVars, niVars, iterVars, queryVars, memVars>>

-----------------------------------------------------------------------------
(* the stop closure *)

\* the owner of the manipulator calls the closure the constructor returned
StopInvoke ==
    /\ Alive
    /\ ~inCtor
    /\ spc = "idle"
    /\ stopCalls < MaxStopCalls
    /\ spc' = "st_lock"
    /\ UNCHANGED <<connVars, registry, password, listenVars, callVars,
                   stopCalls, midgard, renewVars, crashed, histVars>>
    /\ UNCHANGED extVars

\* m.wsLock.Lock()
StopLock ==
    /\ Alive
    /\ spc = "st_lock"
    /\ wsLock = NoOwner
    /\ wsLock' = "stop"
    /\ spc' = "st_check"
    /\ UNCHANGED <<ws, running, sock, hs, stok, wire, registry, password,
                   listenVars, callVars, stopCalls, midgard, renewVars,
                   crashed, histVars>>
    /\ UNCHANGED extVars

\* if m.ws != nil && m.ws.IsClientConn() { runningLock.Lock(); m.running = false; ... }
StopCheck ==
    /\ Alive
    /\ spc = "st_check"
    /\ IF ws # NilConn
       THEN /\ running' = FALSE
            /\ spc' = "st_close"
       ELSE /\ spc' = "st_unlock"
            /\ UNCHANGED running
    /\ UNCHANGED <<ws, wsLock, sock, hs, stok, wire, registry, password,
                   listenVars, callVars, stopCalls, midgard, renewVars,
                   crashed, histVars>>
    /\ UNCHANGED extVars

\* m.ws.Close()
StopClose ==
    /\ Alive
    /\ spc = "st_close"
    /\ sock' = [sock EXCEPT ![ws] = "closed"]
    /\ spc' = "st_unlock"
    /\ UNCHANGED <<ws, wsLock, running, hs, stok, wire, registry, password,
                   listenVars, callVars, stopCalls, midgard, renewVars,
                   crashed, histVars>>
    /\ UNCHANGED extVars

\* m.wsLock.Unlock(); the plain closure returns, the Midgard closure goes on
\* to stopCh <- true
StopUnlock ==
    /\ Alive
    /\ spc = "st_unlock"
    /\ wsLock' = NoOwner
    /\ IF midgard
       THEN /\ spc' = "st_signal"
            /\ UNCHANGED stopCalls
       ELSE /\ spc' = "idle"
            /\ stopCalls' = stopCalls + 1
    /\ UNCHANGED <<ws, running, sock, hs, stok, wire, registry, password,
                   listenVars, callVars, midgard, renewVars, crashed, histVars>>
    /\ UNCHANGED extVars

\* stopCh <- true, together with renewMidgardToken's case <-stop: return
StopSignal ==
    /\ Alive
    /\ spc = "st_signal"
    /\ rpc = "r_select"
    /\ rpc' = "r_exit"
    /\ spc' = "idle"
    /\ stopCalls' = stopCalls + 1
    /\ UNCHANGED <<connVars, registry, password, listenVars, callVars,
                   midgard, rtok, refreshes, crashed, histVars>>
    /\ UNCHANGED extVars

-----------------------------------------------------------------------------
(* renewMidgardToken *)

\* case <-time.Tick(interval): token, err := mclient.IssueFromCertificate(...)
RenewTick ==
    /\ Alive
    /\ rpc = "r_select"
    /\ refreshes < MaxRefresh
    /\ refreshes' = refreshes + 1
    /\ \E ok \in BOOLEAN :
         rtok' = IF ok THEN IssuedToken(refreshes + 1) ELSE EmptyToken
    /\ rpc' = "r_set"
    /\ UNCHANGED <<connVars, registry, password, listenVars, callVars,
                   stopVars, midgard, crashed, histVars>>
    /\ UNCHANGED extVars

\* s.renewLock.Lock(); s.password = token; s.renewLock.Unlock()
RenewSet ==
    /\ Alive
    /\ rpc = "r_set"
    /\ password' = rtok
    /\ rpc' = "r_select"
    /\ UNCHANGED <<connVars, registry, listenVars, callVars, stopVars,
                   midgard, rtok, refreshes, crashed, histVars>>
    /\ UNCHANGED extVars

-----------------------------------------------------------------------------
(* Subscribe: its caller, the worker goroutine and disconnectFunc *)

NumSubDialed == Cardinality({j \in SubSocks : ssock[j] # "none"})

\* relatedIdentities: the names of the identities argument
relatedIdentities == IF identities = "list" THEN IdentityList ELSE {}

\* _, ok := relatedIdentities[event.Identity]; ok || identities == nil
passesFilter(id) == id \in relatedIdentities \/ identities = "nil"

\* Subscribe starts the worker and blocks in <-disconnectionFuncChan
Subscribe ==
    /\ Alive
    /\ ~inCtor
    /\ subpc = "idle"
    /\ subpc' = "waiting"
    /\ wpc' = "w_url"
    /\ UNCHANGED <<identities, recoHandler, sws, stopped, needsPublish, ssock,
                   sstok, surl, needsReco, rerr, rev, upc, uws, rxErrs,
                   recoCalls, seen, handled>>
    /\ UNCHANGED <<coreVars, restVars>>

\* url = ... + "/events?token=" + s.currentPassword() + ...; NewConfig
WorkerURL ==
    /\ Alive
    /\ wpc = "w_url"
    /\ surl' = currentPassword
    /\ wpc' = "w_check"
    /\ UNCHANGED <<identities, recoHandler, sws, stopped, needsPublish, ssock,
                   sstok, subpc, needsReco, rerr, rev, upc, uws, rxErrs,
                   recoCalls, seen, handled>>
    /\ UNCHANGED <<coreVars, restVars>>

\* lock.Lock(); if stopped { lock.Unlock(); return }; lock.Unlock()
WorkerCheckStopped ==
    /\ Alive
    /\ wpc = "w_check"
    /\ wpc' = IF stopped THEN "w_exit" ELSE "w_dial"
    /\ UNCHANGED <<identities, recoHandler, sws, stopped, needsPublish, ssock,
                   sstok, subpc, surl, needsReco, rerr, rev, upc, uws, rxErrs,
                   recoCalls, seen, handled>>
    /\ UNCHANGED <<coreVars, restVars>>

\* ws, err = websocket.DialConfig(config); on error wait 5s and continue
WorkerDial ==
    /\ Alive
    /\ wpc = "w_dial"
    /\ \/ /\ NumSubDialed < MaxSubDials
          /\ LET j == NumSubDialed + 1 IN
               /\ sws' = j
               /\ ssock' = [ssock EXCEPT ![j] = "open"]
               /\ sstok' = [sstok EXCEPT ![j] = surl]
          /\ wpc' = "w_publish"
       \/ /\ sws' = NilConn
          /\ wpc' = "w_url"
          /\ UNCHANGED <<ssock, sstok>>
    /\ UNCHANGED <<identities, recoHandler, stopped, needsPublish, subpc, surl,
                   needsReco, rerr, rev, upc, uws, rxErrs, recoCalls, seen,
                   handled>>
    /\ UNCHANGED <<coreVars, restVars>>

\* (changed) the flag needsPublishDisconnectFunc is never reset
WorkerPublishAgain ==
    /\ Alive
    /\ wpc = "w_publish"
    /\ needsPublish => subpc = "waiting"
    /\ subpc' = IF needsPublish THEN "returned" ELSE subpc
    /\ needsPublish' = needsPublish
    /\ wpc' = "w_reco"
    /\ UNCHANGED <<identities, recoHandler, sws, stopped, ssock, sstok, surl,
                   needsReco, rerr, rev, upc, uws, rxErrs, recoCalls, seen,
                   handled>>
    /\ UNCHANGED <<coreVars, restVars>>

\* if needsPublishDisconnectFunc { disconnectionFuncChan <- disconnectFunc }
\* needsPublishDisconnectFunc = false; Subscribe returns what it received
WorkerPublish ==
    /\ Alive
    /\ wpc = "w_publish"
    /\ needsPublish => subpc = "waiting"
    /\ subpc' = IF needsPublish THEN "returned" ELSE subpc
    /\ needsPublish' = FALSE
    /\ wpc' = "w_reco"
    /\ UNCHANGED <<identities, recoHandler, sws, stopped, ssock, sstok, surl,
                   needsReco, rerr, rev, upc, uws, rxErrs, recoCalls, seen,
                   handled>>
    /\ UNCHANGED <<coreVars, restVars>>

\* (changed) recoHandler() after every successful dial
WorkerRecoverAlways ==
    /\ Alive
    /\ wpc = "w_reco"
    /\ IF recoHandler
         THEN needsReco' = FALSE /\ recoCalls' = recoCalls + 1
         ELSE UNCHANGED <<needsReco, recoCalls>>
    /\ wpc' = "w_read"
    /\ UNCHANGED <<identities, recoHandler, sws, stopped, needsPublish, ssock,
                   sstok, subpc, surl, rerr, rev, upc, uws, rxErrs, seen,
                   handled>>
    /\ UNCHANGED <<coreVars, restVars>>

\* if needsReconnectionHandlerCall && recoHandler != nil {
\*     needsReconnectionHandlerCall = false; recoHandler() }
WorkerRecover ==
    /\ Alive
    /\ wpc = "w_reco"
    /\ IF needsReco /\ recoHandler
         THEN needsReco' = FALSE /\ recoCalls' = recoCalls + 1
         ELSE UNCHANGED <<needsReco, recoCalls>>
    /\ wpc' = "w_read"
    /\ UNCHANGED <<identities, recoHandler, sws, stopped, needsPublish, ssock,
                   sstok, subpc, surl, rerr, rev, upc, uws, rxErrs, seen,
                   handled>>
    /\ UNCHANGED <<coreVars, restVars>>

\* err := websocket.JSON.Receive(ws, event): an event the server pushed, or an
\* error because the connection died or was closed
WorkerReceive ==
    /\ Alive
    /\ wpc = "w_read"
    /\ \/ /\ ssock[sws] = "open"
          /\ \E id \in EventIdentities : rev' = id
          /\ rerr' = FALSE
          /\ UNCHANGED ssock
       \/ /\ ssock[sws] = "open"
          /\ ssock' = [ssock EXCEPT ![sws] = "dead"]
          /\ rerr' = TRUE
          /\ rev' = NoEvent
       \/ /\ ssock[sws] \in {"dead", "closed"}
          /\ rerr' = TRUE
          /\ rev' = NoEvent
          /\ UNCHANGED ssock
    /\ wpc' = "w_handle"
    /\ UNCHANGED <<identities, recoHandler, sws, stopped, needsPublish, sstok,
                   subpc, surl, needsReco, upc, uws, rxErrs, recoCalls, seen,
                   handled>>
    /\ UNCHANGED <<coreVars, restVars>>

\* (changed) the worker returns after handler(nil, err)
WorkerHandleThenReturn ==
    /\ Alive
    /\ wpc = "w_handle"
    /\ IF stopped
         THEN /\ wpc' = "w_url"
              /\ UNCHANGED <<needsReco, rxErrs, seen, handled>>
         ELSE IF rerr
           THEN /\ rxErrs' = rxErrs + 1
                /\ needsReco' = TRUE
                /\ wpc' = "w_exit"
                /\ UNCHANGED <<seen, handled>>
           ELSE /\ seen' = seen \cup {rev}
                /\ handled' = IF passesFilter(rev) THEN handled \cup {rev}
                                                   ELSE handled
                /\ wpc' = "w_read"
                /\ UNCHANGED <<needsReco, rxErrs>>
    /\ rerr' = FALSE
    /\ rev' = NoEvent
    /\ UNCHANGED <<identities, recoHandler, sws, stopped, needsPublish, ssock,
                   sstok, subpc, surl, upc, uws, recoCalls>>
    /\ UNCHANGED <<coreVars, restVars>>

\* lock.Lock(); if stopped { lock.Unlock(); break }; lock.Unlock()
\* if err != nil { handler(nil, err); needsReconnectionHandlerCall = true; break }
\* if _, ok := relatedIdentities[event.Identity]; ok || identities == nil {
\*     handler(event, nil) }
WorkerHandle ==
    /\ Alive
    /\ wpc = "w_handle"
    /\ IF stopped
         THEN /\ wpc' = "w_url"
              /\ UNCHANGED <<needsReco, rxErrs, seen, handled>>
         ELSE IF rerr
           THEN /\ rxErrs' = rxErrs + 1
                /\ needsReco' = TRUE
                /\ wpc' = "w_url"
                /\ UNCHANGED <<seen, handled>>
           ELSE /\ seen' = seen \cup {rev}
                /\ handled' = IF passesFilter(rev) THEN handled \cup {rev}
                                                   ELSE handled
                /\ wpc' = "w_read"
                /\ UNCHANGED <<needsReco, rxErrs>>
    /\ rerr' = FALSE
    /\ rev' = NoEvent
    /\ UNCHANGED <<identities, recoHandler, sws, stopped, needsPublish, ssock,
                   sstok, subpc, surl, upc, uws, recoCalls>>
    /\ UNCHANGED <<coreVars, restVars>>

\* the caller of Subscribe invokes the handle it was returned:
\* lock.Lock(); stopped = true; lock.Unlock()
UnsubscribeStop ==
    /\ Alive
    /\ subpc = "returned"
    /\ upc = "idle"
    /\ stopped' = TRUE
    /\ upc' = "u_check"
    /\ UNCHANGED <<identities, recoHandler, sws, needsPublish, ssock, sstok,
                   subpc, wpc, surl, needsReco, rerr, rev, uws, rxErrs,
                   recoCalls, seen, handled>>
    /\ UNCHANGED <<coreVars, restVars>>

\* if ws != nil: ws is read without the lock
UnsubscribeCheck ==
    /\ Alive
    /\ upc = "u_check"
    /\ uws' = sws
    /\ upc' = IF sws = NilConn THEN "done" ELSE "u_close"
    /\ UNCHANGED <<identities, recoHandler, sws, stopped, needsPublish, ssock,
                   sstok, subpc, wpc, surl, needsReco, rerr, rev, rxErrs,
                   recoCalls, seen, handled>>
    /\ UNCHANGED <<coreVars, restVars>>

\* ws.IsClientConn() && ws.Close(): ws is read again without the lock, while
\* the worker may be assigning it; the build may reuse the value it loaded or
\* load it again, and a nil *websocket.Conn panics in either method
UnsubscribeClose ==
    /\ Alive
    /\ upc = "u_close"
    /\ \E target \in {uws, sws} :
         IF target = NilConn
           THEN /\ crashed' = TRUE
                /\ upc' = "panic"
                /\ UNCHANGED ssock
           ELSE /\ ssock' = [ssock EXCEPT ![target] =
                                IF @ = "open" THEN "closed" ELSE @]
                /\ upc' = "done"
                /\ UNCHANGED crashed
    /\ uws' = NilConn
    /\ UNCHANGED <<identities, recoHandler, sws, stopped, needsPublish, sstok,
                   subpc, wpc, surl, needsReco, rerr, rev, rxErrs, recoCalls,
                   seen, handled>>
    /\ UNCHANGED <<ws, wsLock, running, registry, password, sock, hs, stok,
                   wire, lpc, inCtor, url, resp, lch, pc, reqTok, got, result,
                   spc, stopCalls, midgard, rpc, rtok, refreshes,
                   afterStop, cleared, ndeliv, stopDials>>
    /\ UNCHANGED restVars

-----------------------------------------------------------------------------
(* Specifications *)

StopCallers == 1       \* calls of send in the specification of the stop closure
FairCalls == 1         \* calls of send in the specification with fairness

Connect == ConnectClear \/ ConnectURL \/ ConnectLock \/ ConnectDial \/ ConnectHandshake
Listen == ListenLookup \/ ListenCheckRunning
Send(c) == SendCheck(c) \/ SendWrite(c) \/ SendRegister(c) \/ SendTimeout(c) \/ SendUnregister(c)
Stop == StopLock \/ StopCheck \/ StopClose \/ StopUnlock \/ StopSignal

\* the request socket, the receive loop and the callers of send, as long as
\* nobody closes the socket on this side
Core ==
    \/ ConnectClear
    \/ ConnectURL
    \/ ConnectLock
    \/ ConnectDial
    \/ ConnectHandshake
    \/ ListenReadFrame
    \/ ListenReadDied
    \/ ListenLookup
    \/ ListenCheckRunning
    \/ \E c \in Calls : SendCheck(c)
    \/ \E c \in Calls : SendWrite(c)
    \/ \E c \in Calls : SendRegister(c)
    \/ \E c \in Calls : SendReceive(c)
    \/ \E c \in Calls : SendTimeout(c)
    \/ \E c \in Calls : SendUnregister(c)

Init == InitState /\ midgard = FALSE /\ NoSubscription /\ NoOperation

\* concurrent callers of send against the receive loop and its reconnects
Next ==
    \/ Core
    \/ \E c \in Calls : Call(c)

Spec == Init /\ [][Next]_vars

\* Every goroutine that can take a step of its own eventually takes it: the
\* Go scheduler runs runnable goroutines, mutexes are released, timers fire
\* and a rendezvous both sides are ready for happens.  Nothing is assumed of the peer (frames sent, connections
\* killed, dials accepted) beyond answering a dial, nor of when callers call.
Fairness ==
    /\ WF_vars(Connect)
    /\ WF_vars(Listen)
    /\ \A c \in Calls : WF_vars(Send(c))
    /\ \A c \in Calls : WF_vars(SendReceive(c))

NextFair ==
    \/ Core
    \/ \E c \in 1..FairCalls : Call(c)

FairSpec == Init /\ [][NextFair]_vars /\ Fairness

\* the stop closure of the plain constructors, with callers of send
NextStop ==
    \/ Core
    \/ \E c \in 1..StopCallers : Call(c)
    \/ ListenReadClosed
    \/ StopInvoke
    \/ StopLock
    \/ StopCheck
    \/ StopClose
    \/ StopUnlock

StopSpec == Init /\ [][NextStop]_vars

\* the Midgard constructor: the stop closure also signals renewMidgardToken
InitMidgard == InitState /\ midgard = TRUE /\ NoSubscription /\ NoOperation

NextMidgard ==
    \/ Core
    \/ \E c \in 1..StopCallers : Call(c)
    \/ ListenReadClosed
    \/ StopInvoke
    \/ StopLock
    \/ StopCheck
    \/ StopClose
    \/ StopUnlock
    \/ StopSignal
    \/ RenewTick
    \/ RenewSet

MidgardSpec == InitMidgard /\ [][NextMidgard]_vars

\* the manipulator as the constructor returned it: handshake done on the
\* first request socket, listen blocked in its read
Constructed ==
    /\ ws = 1
    /\ wsLock = NoOwner
    /\ running = TRUE
    /\ registry = unregisterAllResponseChannels
    /\ password = InitialToken
    /\ sock = [k \in Socks |-> IF k = 1 THEN "open" ELSE "none"]
    /\ hs = [k \in Socks |-> IF k = 1 THEN "ok" ELSE "pending"]
    /\ stok = [k \in Socks |-> IF k = 1 THEN InitialToken ELSE EmptyToken]
    /\ wire = {}
    /\ lpc = "l_read"
    /\ inCtor = FALSE
    /\ url = InitialToken
    /\ resp = NoResponse
    /\ lch = NilChan
    /\ pc = [c \in Calls |-> "idle"]
    /\ reqTok = [c \in Calls |-> EmptyToken]
    /\ got = [c \in Calls |-> NoResponse]
    /\ result = [c \in Calls |-> "none"]
    /\ spc = "idle"
    /\ stopCalls = 0
    /\ rtok = EmptyToken
    /\ refreshes = 0
    /\ crashed = FALSE
    /\ afterStop = {}
    /\ cleared = {}
    /\ ndeliv = [c \in Calls |-> 0]
    /\ stopDials = {}

\* Subscribe is about to be called with some identities and recoHandler
SubscribeArguments ==
    /\ identities \in {"nil", "empty", "list"}
    /\ recoHandler \in BOOLEAN
    /\ sws = NilConn
    /\ stopped = FALSE
    /\ needsPublish = TRUE
    /\ ssock = [j \in SubSocks |-> "none"]
    /\ sstok = [j \in SubSocks |-> EmptyToken]
    /\ subpc = "idle"
    /\ wpc = "none"
    /\ surl = EmptyToken
    /\ needsReco = FALSE
    /\ rerr = FALSE
    /\ rev = NoEvent
    /\ upc = "idle"
    /\ uws = NilConn
    /\ rxErrs = 0
    /\ recoCalls = 0
    /\ seen = {}
    /\ handled = {}

\* one subscription on a constructed manipulator whose request socket is quiet
InitSub ==
    /\ Constructed
    /\ midgard = FALSE
    /\ rpc = "none"
    /\ SubscribeArguments
    /\ NoOperation

NextSub ==
    \/ Subscribe
    \/ WorkerURL
    \/ WorkerCheckStopped
    \/ WorkerDial
    \/ WorkerPublish
    \/ WorkerRecover
    \/ WorkerReceive
    \/ WorkerHandle
    \/ UnsubscribeStop
    \/ UnsubscribeCheck
    \/ UnsubscribeClose

SubSpec == InitSub /\ [][NextSub]_vars

\* an operation on 0..NumCalls objects, and the unimplemented operations,
\* against the receive loop and its reconnects
InitObjects ==
    /\ InitState
    /\ midgard = FALSE
    /\ NoSubscription
    /\ nobjects \in 0..NumCalls
    /\ NoObjectsCall
    /\ NoUnimplementedCall
    /\ NoIteration
    /\ NoLibraryCall

NextObjects ==
    \/ Core
    \/ ObjectsCall
    \/ ObjectsRequest
    \/ ObjectsResponse
    \/ \E op \in NotImplementedOps : NotImplemented(op)

ObjectsSpec == InitObjects /\ [][NextObjects]_vars

\* the Midgard variant after its constructor returned: the token renewer
\* against the redials of the request socket and of one subscription
InitToken ==
    /\ Constructed
    /\ midgard = TRUE
    /\ rpc = "r_select"
    /\ NoSubscription
    /\ NoOperation

NextToken ==
    \/ RenewTick
    \/ RenewSet
    \/ ListenReadDied
    \/ ListenCheckRunning
    \/ ConnectClear
    \/ ConnectURL
    \/ ConnectLock
    \/ ConnectDial
    \/ ConnectHandshake
    \/ Subscribe
    \/ WorkerURL
    \/ WorkerCheckStopped
    \/ WorkerDial
    \/ WorkerPublish
    \/ WorkerRecover
    \/ WorkerReceive
    \/ WorkerHandle

TokenSpec == InitToken /\ [][NextToken]_vars

\* one call of IterFunc, by Iter or with an iteratorFunc of the caller's
InitIter ==
    /\ Constructed
    /\ midgard = FALSE
    /\ rpc = "none"
    /\ NoSubscription
    /\ nobjects = 0
    /\ NoObjectsCall
    /\ NoUnimplementedCall
    /\ argBlockSize \in BlockSizeArgs
    /\ blockSize = argBlockSize
    /\ ctxPage \in ContextPages
    /\ ipc = "idle"
    /\ page = 0
    /\ objects = 0
    /\ requested = <<>>
    /\ iterated = <<>>
    /\ ires = "none"
    /\ viaIter \in BOOLEAN
    /\ collected = 0
    /\ dest = "none"
    /\ NoLibraryCall

NextIter ==
    \/ IterCall
    \/ IterRetrieve
    \/ IterBlock
    \/ IterReturn

IterSpec == InitIter /\ [][NextIter]_vars

\* the registry of a constructed manipulator under any sequence of calls of
\* its methods
InitRegistry ==
    /\ Constructed
    /\ midgard = FALSE
    /\ rpc = "none"
    /\ NoSubscription
    /\ NoOperation

NextRegistry ==
    \/ \E rid \in RequestIDs, ch \in Calls : RegistryRegister(rid, ch)
    \/ \E rid \in RequestIDs : RegistryUnregister(rid)
    \/ RegistryClear
    \/ \E rid \in RequestIDs : RegistryLookup(rid)

RegistrySpec == InitRegistry /\ [][NextRegistry]_vars

-----------------------------------------------------------------------------
(* manipmongo: runQueryFunc *)

MaxTries == 2          \* retries of one call of runQueryFunc

\* case 6, 7, 71, 74, 91, 109, 189, 202, 216, 262, 10107, 13436, 13435, 11600, 11602
CommunicationCodes ==
    {6, 7, 71, 74, 91, 109, 189, 202, 216, 262, 10107, 13436, 13435, 11600, 11602}

\* what operationFunc() can fail with, by what handleQueryError looks at:
\* a net.Error (whose text may or may not read as a connection error),
\* mgo.ErrNotFound, a duplicate key error, io.EOF or another error whose text
\* isConnectionError matches, a server error with a code, and anything else
RawErrors ==
    {[net |-> TRUE, notFound |-> FALSE, dup |-> FALSE, conn |-> c, code |-> 0] :
        c \in BOOLEAN}
    \cup {[net |-> FALSE, notFound |-> TRUE, dup |-> FALSE, conn |-> FALSE, code |-> 0]}
    \cup {[net |-> FALSE, notFound |-> FALSE, dup |-> TRUE, conn |-> FALSE, code |-> 11000]}
    \cup {[net |-> FALSE, notFound |-> FALSE, dup |-> FALSE, conn |-> TRUE, code |-> 0]}
    \cup {[net |-> FALSE, notFound |-> FALSE, dup |-> FALSE, conn |-> FALSE, code |-> k] :
            k \in {0, 2, 6, 91, 10107, 11602}}

handleQueryError(err) ==
    IF err.net THEN "CannotCommunicate"
    ELSE IF err.notFound THEN "ObjectNotFound"
    ELSE IF err.dup THEN "ConstraintViolation"
    ELSE IF err.conn THEN "CannotCommunicate"
    ELSE IF err.code \in CommunicationCodes THEN "CannotCommunicate"
    ELSE "CannotExecuteQuery"

\* (changed) every classified error counts as a communication error
IsAnyError(e) == TRUE

IsCannotCommunicateError(e) == e = "CannotCommunicate"

\* a call of runQueryFunc: var try int; info := RetryInfo{...}
QueryCall ==
    /\ qpc = "idle"
    /\ qpc' = "q_op"
    /\ UNCHANGED <<mctxRetryFunc, defaultRetryFunc, hasDeadline, try, qerr,
                   qres, attempts, retryCalls>>
    /\ UNCHANGED <<coreVars, subVars, multiVars, niVars, iterVars, regVars, memVars>>

\* out, err := operationFunc(); if err == nil { return out, nil }
\* err = handleQueryError(err); if !IsCannotCommunicateError(err) { return out, err }
QueryAttempt ==
    /\ qpc = "q_op"
    /\ attempts' = attempts + 1
    /\ \/ /\ qerr' = "nil"
          /\ qres' = [out |-> "out", err |-> "nil"]
          /\ qpc' = "returned"
       \/ \E raw \in RawErrors :
            /\ qerr' = handleQueryError(raw)
            /\ IF ~IsCannotCommunicateError(qerr')
               THEN /\ qres' = [out |-> "out", err |-> qerr']
                    /\ qpc' = "returned"
               ELSE /\ qpc' = "q_retry"
                    /\ UNCHANGED qres
    /\ UNCHANGED <<mctxRetryFunc, defaultRetryFunc, hasDeadline, try, retryCalls>>
    /\ UNCHANGED <<coreVars, subVars, multiVars, niVars, iterVars, regVars, memVars>>

\* if rf := mctx.RetryFunc(); rf != nil { if rerr := rf(info); rerr != nil { return nil, rerr } }
\* else if defaultRetryFunc != nil { if rerr := defaultRetryFunc(info); ... }
QueryRetryFunc ==
    /\ qpc = "q_retry"
    /\ IF mctxRetryFunc \/ defaultRetryFunc
       THEN /\ retryCalls' = Append(retryCalls,
                               [fn |-> IF mctxRetryFunc THEN "mctx" ELSE "default",
                                try |-> try, err |-> qerr])
            /\ \/ /\ qres' = [out |-> "nil", err |-> "retryError"]
                  /\ qpc' = "returned"
               \/ /\ qpc' = "q_deadline"
                  /\ UNCHANGED qres
       ELSE /\ qpc' = "q_deadline"
            /\ UNCHANGED <<retryCalls, qres>>
    /\ UNCHANGED <<mctxRetryFunc, defaultRetryFunc, hasDeadline, try, qerr, attempts>>
    /\ UNCHANGED <<coreVars, subVars, multiVars, niVars, iterVars, regVars, memVars>>

\* deadline, ok := mctx.Context().Deadline()
\* if ok && deadline.Before(time.Now()) { return nil, CannotExecuteQuery(DeadlineExceeded) }
QueryDeadline ==
    /\ qpc = "q_deadline"
    /\ \/ /\ hasDeadline
          /\ qres' = [out |-> "nil", err |-> "CannotExecuteQuery"]
          /\ qpc' = "returned"
       \/ /\ qpc' = "q_sleep"
          /\ UNCHANGED qres
    /\ UNCHANGED <<mctxRetryFunc, defaultRetryFunc, hasDeadline, try, qerr,
                   attempts, retryCalls>>
    /\ UNCHANGED <<coreVars, subVars, multiVars, niVars, iterVars, regVars, memVars>>

\* <-time.After(backoff.Next(try, deadline)); try++
QuerySleep ==
    /\ qpc = "q_sleep"
    /\ try < MaxTries
    /\ try' = try + 1
    /\ qpc' = "q_op"
    /\ UNCHANGED <<mctxRetryFunc, defaultRetryFunc, hasDeadline, qerr, qres,
                   attempts, retryCalls>>
    /\ UNCHANGED <<coreVars, subVars, multiVars, niVars, iterVars, regVars, memVars>>

\* one call of runQueryFunc, with or without a retry function in the context,
\* a default retry function and a deadline
InitQuery ==
    /\ Constructed
    /\ midgard = FALSE
    /\ rpc = "none"
    /\ NoSubscription
    /\ nobjects = 0
    /\ NoObjectsCall
    /\ NoUnimplementedCall
    /\ NoIteration
    /\ NoRegistryCall
    /\ NewMemoryManipulator
    /\ mctxRetryFunc \in BOOLEAN
    /\ defaultRetryFunc \in BOOLEAN
    /\ hasDeadline \in BOOLEAN
    /\ qpc = "idle"
    /\ try = 0
    /\ qerr = "none"
    /\ qres = [out |-> "none", err |-> "none"]
    /\ attempts = 0
    /\ retryCalls = <<>>

NextQuery ==
    \/ QueryCall
    \/ QueryAttempt
    \/ QueryRetryFunc
    \/ QueryDeadline
    \/ QuerySleep

QuerySpec == InitQuery /\ [][NextQuery]_vars

-----------------------------------------------------------------------------
(* manipmemory: the manipulator backed by go-memdb *)

MaxObjects == 2        \* identifiers of objects
MemObjects == 1..MaxObjects
NoTransaction == ""
TransactionIDs == {"t1", "t2"}
WriteOps == {"create", "update", "delete"}

\* s.db.Txn(true): a write transaction on the current root of the database
dbTxn == [live |-> TRUE, ins |-> {}, del |-> {}]

\* txn.Insert(table, object): inserts the object or replaces the one with its id
txnInsert(txn, o) == [txn EXCEPT !.ins = @ \cup {o}, !.del = @ \ {o}]

\* txn.Delete(table, object)
txnDelete(txn, o) == [txn EXCEPT !.del = @ \cup {o}, !.ins = @ \ {o}]

\* txn.Abort(): nothing for a finished transaction, else drops what it modified
txnAbort(txn) ==
    IF txn.live THEN [live |-> FALSE, ins |-> {}, del |-> {}] ELSE txn

\* txn.Commit(): nothing for a finished transaction, else publishes the new root
txnCommit(d, txn) ==
    IF txn.live THEN (d \cup txn.ins) \ txn.del ELSE d

\* what the transaction sees: the root it started from and its own changes
txnHas(d, txn, o) == o \in (d \cup txn.ins) \ txn.del

\* s.txnRegistry[id] = txn
registerTxn(reg, id, txn) ==
    [t \in DOMAIN reg \cup {id} |-> IF t = id THEN txn ELSE reg[t]]

\* delete(s.txnRegistry, id)
unregisterTxn(reg, id) == [t \in DOMAIN reg \ {id} |-> reg[t]]

\* Create, Update and Delete of one object outside of any transaction:
\* txn := s.db.Txn(true); defer txn.Abort(); txn.Insert/Delete; s.commitTxn(txn)
MemWriteNow(op, o) ==
    /\ Alive
    /\ op = "create" => o \notin db
    /\ LET txn == dbTxn IN
         IF op = "delete" /\ ~txnHas(db, txn, o)
         THEN /\ mret' = [op |-> op, tid |-> NoTransaction,
                          result |-> "CannotExecuteQuery"]
              /\ UNCHANGED db
         ELSE /\ db' = txnCommit(db, IF op = "delete" THEN txnDelete(txn, o)
                                                       ELSE txnInsert(txn, o))
              /\ mret' = [op |-> op, tid |-> NoTransaction, result |-> "nil"]
    /\ UNCHANGED <<txnRegistry, wrote, crashed>>
    /\ UNCHANGED <<connVars, registry, password, listenVars, callVars, stopVars,
                   midgard, renewVars, histVars>>
    /\ UNCHANGED <<subVars, multiVars, niVars, iterVars, regVars, queryVars>>

\* Create, Update and Delete of one object under a TransactionID:
\* txn := s.txnForID(tid); defer txn.Abort(); txn.Insert/Delete; return nil.
\* txnForID registers a new transaction or returns the registered one; the
\* deferred Abort finishes it when the operation returns.  A write on a
\* registered transaction that is finished already goes through the nil root
\* of that transaction: the library panics or refuses it.
MemWriteInTxn(op, tid, o) ==
    /\ Alive
    /\ op = "create" => o \notin db
    /\ IF tid \in DOMAIN txnRegistry /\ ~txnRegistry[tid].live
       THEN /\ \/ /\ crashed' = TRUE
                  /\ mret' = [op |-> op, tid |-> tid, result |-> "panic"]
               \/ /\ mret' = [op |-> op, tid |-> tid,
                              result |-> "CannotExecuteQuery"]
                  /\ UNCHANGED crashed
            /\ UNCHANGED <<txnRegistry, wrote>>
       ELSE LET txn == IF tid \in DOMAIN txnRegistry THEN txnRegistry[tid]
                                                     ELSE dbTxn IN
              /\ UNCHANGED crashed
              /\ IF op = "delete" /\ ~txnHas(db, txn, o)
                 THEN /\ txnRegistry' = registerTxn(txnRegistry, tid, txnAbort(txn))
                      /\ wrote' = IF tid \in DOMAIN wrote THEN wrote
                                  ELSE registerTxn(wrote, tid, [ins |-> {}, del |-> {}])
                      /\ mret' = [op |-> op, tid |-> tid,
                                  result |-> "CannotExecuteQuery"]
                 ELSE LET w == IF tid \in DOMAIN wrote THEN wrote[tid]
                                                       ELSE [ins |-> {}, del |-> {}]
                          done == IF op = "delete" THEN txnDelete(txn, o)
                                                   ELSE txnInsert(txn, o) IN
                        /\ txnRegistry' = registerTxn(txnRegistry, tid, txnAbort(done))
                        /\ wrote' = registerTxn(wrote, tid,
                                       IF op = "delete"
                                       THEN [ins |-> w.ins \ {o}, del |-> w.del \cup {o}]
                                       ELSE [ins |-> w.ins \cup {o}, del |-> w.del \ {o}])
                        /\ mret' = [op |-> op, tid |-> tid, result |-> "nil"]
    /\ UNCHANGED db
    /\ UNCHANGED <<connVars, registry, password, listenVars, callVars, stopVars,
                   midgard, renewVars, histVars>>
    /\ UNCHANGED <<subVars, multiVars, niVars, iterVars, regVars, queryVars>>

\* Retrieve: txn := s.db.Txn(false); raw, err := txn.First(..., "id", id)
MemRetrieve(o) ==
    /\ Alive
    /\ mret' = [op |-> "retrieve", tid |-> NoTransaction,
                result |-> IF o \in db THEN "nil" ELSE "ObjectNotFound"]
    /\ UNCHANGED <<db, txnRegistry, wrote, crashed>>
    /\ UNCHANGED <<connVars, registry, password, listenVars, callVars, stopVars,
                   midgard, renewVars, histVars>>
    /\ UNCHANGED <<subVars, multiVars, niVars, iterVars, regVars, queryVars>>

\* Commit(id): no registered transaction: CannotCommit; else
\* defer s.unregisterTxn(id); s.commitTxn(txn); return nil
MemCommit(tid) ==
    /\ Alive
    /\ IF tid \notin DOMAIN txnRegistry
       THEN /\ mret' = [op |-> "commit", tid |-> tid, result |-> "CannotCommit"]
            /\ UNCHANGED <<db, txnRegistry, wrote>>
       ELSE /\ db' = txnCommit(db, txnRegistry[tid])
            /\ txnRegistry' = unregisterTxn(txnRegistry, tid)
            /\ wrote' = unregisterTxn(wrote, tid)
            /\ mret' = [op |-> "commit", tid |-> tid, result |-> "nil"]
    /\ UNCHANGED crashed
    /\ UNCHANGED <<connVars, registry, password, listenVars, callVars, stopVars,
                   midgard, renewVars, histVars>>
    /\ UNCHANGED <<subVars, multiVars, niVars, iterVars, regVars, queryVars>>

\* Abort(id): no registered transaction: false; else
\* txn.Abort(); s.unregisterTxn(id); return true
MemAbort(tid) ==
    /\ Alive
    /\ IF tid \notin DOMAIN txnRegistry
       THEN /\ mret' = [op |-> "abort", tid |-> tid, result |-> "false"]
            /\ UNCHANGED <<txnRegistry, wrote>>
       ELSE /\ txnRegistry' = unregisterTxn(txnRegistry, tid)
            /\ wrote' = unregisterTxn(wrote, tid)
            /\ mret' = [op |-> "abort", tid |-> tid, result |-> "true"]
    /\ UNCHANGED <<db, crashed>>
    /\ UNCHANGED <<connVars, registry, password, listenVars, callVars, stopVars,
                   midgard, renewVars, histVars>>
    /\ UNCHANGED <<subVars, multiVars, niVars, iterVars, regVars, queryVars>>

\* one caller of a new in-memory manipulator
InitMem ==
    /\ Constructed
    /\ midgard = FALSE
    /\ rpc = "none"
    /\ NoSubscription
    /\ NoOperation

NextMem ==
    \/ \E op \in WriteOps, o \in MemObjects : MemWriteNow(op, o)
    \/ \E op \in WriteOps, tid \in TransactionIDs, o \in MemObjects :
         MemWriteInTxn(op, tid, o)
    \/ \E o \in MemObjects : MemRetrieve(o)
    \/ \E tid \in TransactionIDs : MemCommit(tid)
    \/ \E tid \in TransactionIDs : MemAbort(tid)

MemSpec == InitMem /\ [][NextMem]_vars

-----------------------------------------------------------------------------
(* Properties *)

InSend == {"s_check", "s_write", "s_register", "s_wait", "s_unreg"}
CannotCommunicate == {"notInitialized", "writeError", "timeout"}

\* C1: every caller that takes a response from its channel (and so every
\* caller that returns successfully) holds the response frame whose
\* requestID is the requestID of the frame it wrote; no caller ever holds
\* the response to another caller's request.
C1_ResponseMatchesRequest ==
    \A c \in Calls :
        /\ got[c] # NoResponse => got[c].rid = RequestID(c)
        /\ result[c] = "response" => got[c].rid = RequestID(c)

\* C1 witness: all the concurrent callers have returned successfully.
C1_AllCallersServed ==
    \A c \in Calls : pc[c] = "done" /\ result[c] = "response"

\* C2: at most one response is delivered per requestID, and a duplicate is
\* dropped by the receive loop: the loop never holds, for delivery, a frame
\* for a caller that has already taken a response.
C2_DuplicateDropped ==
    /\ \A c \in Calls : ndeliv[c] <= 1
    /\ ~(lpc = "l_send" /\ lch # NilChan /\ ndeliv[lch] >= 1)

\* C3: the receive loop is never blocked for good while dispatching: it is
\* never sending on the channel of a caller that has left its select (timed
\* out, or took a response), a send nobody will ever receive.
C3_ReceiveLoopNeverStuck ==
    ~(lpc = "l_send" /\ lch # NilChan /\ pc[lch] \in {"s_unreg", "done"})

\* C4: a frame whose requestID has no registered waiter when the receive
\* loop looks it up (a late response, or an unknown id) is dropped: the loop
\* goes back to reading, no caller receives anything, the registry is
\* unchanged and nothing panics; and a caller that timed out never receives
\* a response.
C4_LateResponseDropped ==
    /\ [](\A c \in Calls : result[c] = "timeout" => ndeliv[c] = 0 /\ got[c] = NoResponse)
    /\ [][(lpc = "l_lookup" /\ lpc' # lpc /\ resp.rid \notin DOMAIN registry)
            => /\ lpc' = "l_read"
               /\ registry' = registry
               /\ got' = got
               /\ ndeliv' = ndeliv
               /\ result' = result
               /\ ~crashed']_vars

\* C4 witness: the receive loop holds the late response of a caller that
\* timed out and unregistered, while another caller's waiter is registered.
C4_LateFrameAtLookup ==
    /\ lpc = "l_lookup"
    /\ \E c \in Calls :
         /\ resp.rid = RequestID(c)
         /\ pc[c] = "done"
         /\ result[c] = "timeout"
         /\ \E d \in Calls \ {c} :
              pc[d] = "s_wait" /\ RequestID(d) \in DOMAIN registry

\* C5: every call of send ends (it returns, or the process has panicked), and a
\* call that wrote its frame and took no response returns the timeout error,
\* never a response.
C5_SendTerminates ==
    /\ \A c \in Calls : (pc[c] \in InSend) ~> (pc[c] = "done" \/ crashed)
    /\ [](\A c \in Calls :
            /\ (pc[c] = "done" /\ result[c] \notin {"notInitialized", "writeError"}
                  /\ ndeliv[c] = 0) => result[c] = "timeout"
            /\ result[c] = "timeout" => got[c] = NoResponse)

\* C5 witness: a call has returned the timeout error after a reconnect.
C5_TimedOutAcrossReconnect ==
    \E c \in Calls :
        pc[c] = "done" /\ result[c] = "timeout" /\ NumDialed >= 2

\* C6 (as stated): every call waiting in its select has a waiter in the
\* registry, under its own requestID only, and a call that has returned has
\* none.
C6_WaitingHasWaiter ==
    /\ \A r \in DOMAIN registry :
         registry[r] \in Calls /\ RequestID(registry[r]) = r
    /\ \A c \in Calls :
         /\ pc[c] = "s_wait" => RequestID(c) \in DOMAIN registry
         /\ pc[c] = "done" => RequestID(c) \notin DOMAIN registry

\* C6 (amended): the registry holds at most one waiter per requestID, the
\* one of the call that built it; a call waiting in its select has its
\* waiter registered unless connect has cleared the registry since; a call
\* that has not registered yet or has returned has no entry.
C6_RegistryInvariant ==
    /\ \A r \in DOMAIN registry :
         registry[r] \in Calls /\ RequestID(registry[r]) = r
    /\ \A c \in Calls :
         /\ pc[c] = "s_wait" => (RequestID(c) \in DOMAIN registry \/ c \in cleared)
         /\ c \in cleared => RequestID(c) \notin DOMAIN registry
         /\ pc[c] \in {"idle", "s_check", "s_write", "s_register", "done"}
              => RequestID(c) \notin DOMAIN registry

\* C6 witness: one call has returned, another waits with its waiter
\* registered.
C6_OneReturnedOneWaiting ==
    \E c, d \in Calls :
        /\ pc[c] = "done"
        /\ result[c] \in {"response", "timeout"}
        /\ pc[d] = "s_wait"
        /\ RequestID(d) \in DOMAIN registry

\* C7: a delivered response is returned iff 200 <= statusCode < 300, and
\* yields the decoded error iff its statusCode is outside that range.
C7_SuccessIff2xx ==
    \A c \in Calls :
        got[c] # NoResponse =>
            /\ result[c] = "response"
                 <=> (200 <= got[c].status /\ got[c].status < 300)
            /\ result[c] = "decodedError"
                 <=> ~(200 <= got[c].status /\ got[c].status < 300)

\* C8: a call that entered send after the stop closure had returned returns
\* nothing but a CannotCommunicate error, never a response.
C8_AfterStopCannotCommunicate ==
    \A c \in afterStop :
        pc[c] \in {"s_unreg", "done"} => result[c] \in CannotCommunicate

\* C9: once the stop closure has returned, running is false, so that the
\* receive loop can observe it and exit, and no request socket has been
\* dialed since.
C9_StopEndsReceiveLoop ==
    stopCalls > 0 => (running = FALSE /\ stopDials = {})

\* C10: a second call of the stop closure returns: it is never blocked in
\* stopCh <- true after renewMidgardToken has returned.
C10_SecondStopReturns ==
    ~(spc = "st_signal" /\ stopCalls >= 1 /\ rpc = "r_exit")

\* C11: the constructor returns the manipulator iff the dial succeeded and
\* the handshake frame had statusCode 200; while it has not, and when it
\* returned an error, there is no receive loop, no renewer, no caller and no
\* panic, and at most one socket was dialed.
C11_VisibleIffHandshakeOK ==
    /\ ~inCtor <=> (sock[1] # "none" /\ hs[1] = "ok")
    /\ inCtor =>
         /\ lpc \in {"c_clear", "c_url", "c_lock", "c_dial", "c_hs", "ctor_failed"}
         /\ rpc = "none"
         /\ spc = "idle"
         /\ \A c \in Calls : pc[c] = "idle"
         /\ NumDialed <= 1
         /\ ~crashed
    /\ lpc = "ctor_failed" => (inCtor /\ hs[1] # "ok")

\* C11 witness: the constructor has returned an error because the handshake
\* frame had another status than 200.
C11_HandshakeRefused ==
    lpc = "ctor_failed" /\ sock[1] = "open" /\ hs[1] = "rejected"

\* C12: recoHandler is invoked exactly once per reconnect boundary: never
\* before a read failure has been reported (so not on the initial connect,
\* whatever dials failed before it), once by the time the worker reads again
\* after a reported read failure, and never twice for one failure.
C12_RecoveryOncePerReconnect ==
    /\ recoCalls <= rxErrs
    /\ recoHandler => rxErrs <= recoCalls + 1
    /\ (recoHandler /\ wpc \in {"w_read", "w_handle"}) => recoCalls = rxErrs
    /\ ~recoHandler => recoCalls = 0

C12_RecoveredAfterReconnect ==
    /\ recoCalls = 1
    /\ wpc = "w_read"
    /\ NumSubDialed = 2
    /\ ssock[sws] = "open"

\* C13: a read that fails while the subscription is not stopped is reported
\* by exactly one handler(nil, err) and by no handler(event, nil); the worker
\* then goes back to dialing, goes back to dialing after every failed dial,
\* and returns only when it has seen stopped.
C13_ReadFailureReportedThenRedial ==
    [][ /\ (wpc = "w_handle" /\ rerr /\ ~stopped /\ wpc' # wpc) =>
              /\ rxErrs' = rxErrs + 1
              /\ handled' = handled
              /\ seen' = seen
              /\ wpc' = "w_url"
        /\ rxErrs' # rxErrs => (wpc = "w_handle" /\ rerr /\ ~stopped)
        /\ (wpc = "w_dial" /\ wpc' # wpc) => wpc' \in {"w_publish", "w_url"}
        /\ (wpc = "w_url" /\ wpc' # wpc) => wpc' = "w_check"
        /\ (wpc = "w_check" /\ ~stopped /\ wpc' # wpc) => wpc' = "w_dial"
        /\ (wpc' = "w_exit" /\ wpc # "w_exit") => stopped
      ]_vars

C13_RetryingAfterFailedRedial ==
    /\ rxErrs = 1
    /\ wpc = "w_dial"
    /\ sws = NilConn
    /\ ~stopped

\* C14: handler(event, nil) is invoked for a received event iff the
\* identities filter is empty (nil or of length zero) or holds the event's
\* identity.
C14_DeliveredIffEmptyFilterOrMatch ==
    handled = {id \in seen : identities \in {"nil", "empty"}
                             \/ id \in relatedIdentities}

\* C15: once the unsubscribe handle has returned and the worker has returned,
\* no events socket is left open.
C15_UnsubscribedLeavesNoSocket ==
    (upc = "done" /\ wpc = "w_exit") => \A j \in SubSocks : ssock[j] # "open"

\* C16: an operation on several objects issues its sub-requests one after
\* the other in argument order: the request of an object enters send only
\* when send has returned a response for every object before it, and after
\* the first failure the operation returns that error and no later object's
\* request is sent.
C16_SequentialInArgumentOrder ==
    /\ \A j \in Calls :
         pc[j] # "idle" =>
           /\ j <= nobjects
           /\ j <= mi
           /\ \A i \in 1..(j - 1) : pc[i] = "done" /\ result[i] = "response"
    /\ (mpc = "returned" /\ mres # "nil") =>
           /\ \A j \in Calls : j > mi => pc[j] = "idle" /\ RequestID(j) \notin wire
           /\ mres \in {"cannotMarshal", "cannotUnmarshal"} \/ mres = result[mi]
           /\ mres = "cannotUnmarshal" => result[mi] = "response"
    /\ (mpc = "returned" /\ mres = "nil") =>
           /\ mi = nobjects
           /\ \A j \in 1..nobjects : result[j] = "response"

C16_SecondObjectFailed ==
    /\ nobjects = 2
    /\ mpc = "returned"
    /\ result[1] = "response"
    /\ result[2] = "decodedError"
    /\ mres = "decodedError"

\* C19: DeleteMany, Assign and Increment return NotImplemented and change
\* nothing: no frame is written, no waiter is registered, no field of the
\* manipulator and no other call changes.
C19_NotImplementedChangesNothing ==
    [][ (niop' # niop \/ nires' # nires) =>
            /\ niop' \in NotImplementedOps
            /\ nires' = "notImplemented"
            /\ UNCHANGED <<coreVars, subVars, multiVars, iterVars>>
      ]_vars

C19_IncrementDuringRoundTrip ==
    /\ niop = "Increment"
    /\ nires = "notImplemented"
    /\ \E c \in Calls : pc[c] = "s_wait" /\ RequestID(c) \in DOMAIN registry

\* C17: when the periodic refresh fails to obtain a token, the stored
\* password keeps its prior value.
C17_FailedRefreshKeepsToken ==
    [][ (rpc = "r_set" /\ rtok = EmptyToken /\ rpc' # rpc) =>
            password' = password ]_vars

\* C18: a change of the stored password changes nothing else (no socket is
\* closed, dialed or reassigned, the registry and running are untouched),
\* and every dial of the request socket or of the subscription socket
\* presents the password that was stored when its URL was built.
C18_RotationOnlyStoresToken ==
    [][ /\ password' # password =>
              UNCHANGED <<ws, wsLock, running, registry, sock, hs, stok, wire,
                          listenVars, callVars, stopVars, crashed, subVars>>
        /\ (lpc = "c_url" /\ lpc' # lpc) => url' = password
        /\ (lpc \in {"c_lock", "c_dial"}) => url' = url
        /\ \A k \in Socks :
             (sock[k] = "none" /\ sock'[k] # "none") => stok'[k] = url
        /\ (wpc = "w_url" /\ wpc' # wpc) => surl' = password
        /\ (wpc \in {"w_check", "w_dial"}) => surl' = surl
        /\ \A j \in SubSocks :
             (ssock[j] = "none" /\ ssock'[j] # "none") => sstok'[j] = surl
      ]_vars

C18_OldSocketKeptNewTokenDialed ==
    /\ password = IssuedToken(1)
    /\ ws = 1
    /\ sock[1] = "open"
    /\ stok[1] = InitialToken
    /\ \E j \in SubSocks : ssock[j] = "open" /\ sstok[j] = IssuedToken(1)

\* C20: IterFunc asks RetrieveMany for the pages 1, 2, 3, ... without gaps,
\* each with the given blockSize (10000 when it is <= 0) whatever page the
\* given context carried; iteratorFunc has been called once for each
\* non-empty block, in page order; IterFunc returns nil at the first empty
\* page, for which iteratorFunc is not called.
C20_PagesInOrderUntilEmpty ==
    LET size == IF argBlockSize <= 0 THEN 10000 ELSE argBlockSize IN
    /\ \A i \in 1..Len(requested) :
         requested[i] = [page |-> i, pageSize |-> size]
    /\ ipc # "idle" => Len(requested) = page
    /\ \A i \in 1..Len(iterated) : iterated[i] = i
    /\ ipc = "i_retrieve" =>
         (Len(iterated) = page /\ (page > 0 => objects > 0))
    /\ ipc = "i_iterate" => (objects > 0 /\ Len(iterated) = page - 1)
    /\ ires = "nil" =>
         (ipc = "returned" /\ objects = 0 /\ Len(iterated) = page - 1)
    /\ (ipc = "returned" /\ ires # "retrieveError" /\ objects = 0) =>
         ires = "nil"

C20_EndedAtThirdPage ==
    /\ ires = "nil"
    /\ argBlockSize = 0
    /\ ctxPage = 7
    /\ Len(requested) = 3
    /\ iterated = <<1, 2>>

\* C21: IterFunc stops at the first error: once RetrieveMany has failed on
\* page p or iteratorFunc has returned an error for the block of page p,
\* IterFunc has returned that error, p is the last page requested, the
\* block of p is the last one iteratorFunc may have been called for, and
\* nothing is requested or iterated afterwards; Iter then returns a nil list.
C21_StopsAtFirstError ==
    /\ [](ires \in {"retrieveError", "iterError"} =>
            /\ ipc = "returned"
            /\ Len(requested) = page
            /\ Len(iterated) = IF ires = "iterError" THEN page ELSE page - 1
            /\ dest \in {"none", "nil"}
            /\ ~viaIter => dest = "none")
    /\ [][ (ires \in {"retrieveError", "iterError"}) =>
               UNCHANGED <<ires, ipc, page, requested, iterated>> ]_vars
    /\ [](dest = "list" => ires = "nil")

C21_IterFailedOnSecondPage ==
    /\ viaIter
    /\ ires = "retrieveError"
    /\ dest = "nil"
    /\ page = 2
    /\ iterated = <<1>>

\* C22: the waiter of a request is registered before its frame is written,
\* so the receive loop never drops the response to a written request whose
\* call has not registered its waiter yet.
C22_ResponseFindsWaiter ==
    [][ (lpc = "l_lookup" /\ lpc' = "l_read") =>
            \A c \in Calls :
               resp.rid = RequestID(c) => pc[c] # "s_register" ]_vars

\* C23: the reconnect loop the receive loop entered after a failed read goes
\* on calling connect until an attempt succeeds: it is never cut short.
C23_ReconnectLoopRunsUntilUp ==
    ~(/\ ~inCtor
      /\ lpc \in {"c_clear", "c_url", "c_lock", "c_dial", "c_hs"}
      /\ crashed)

\* C24: registering a requestID that is present in the registry panics and
\* replaces nothing: the waiter of a requestID changes only by leaving the
\* registry.
C24_RegisteredWaiterNeverReplaced ==
    [][ /\ \A rid \in DOMAIN registry :
             rid \in DOMAIN registry' => registry'[rid] = registry[rid]
        /\ (lastOp' # lastOp /\ lastOp'.op = "register"
              /\ lastOp'.rid \in DOMAIN registry) => crashed'
      ]_vars

\* C25: no read of the request socket pointer races with its re-assignment:
\* while connect is at the assignment s.ws, err = DialConfig(...), no call of
\* send is at one of its reads of s.ws.
C25_NoReadRacesWithReassignment ==
    ~(/\ lpc = "c_dial"
      /\ wsLock = "connect"
      /\ \E c \in Calls : pc[c] \in {"s_check", "s_write"})

\* C26: no thread dials or closes a socket while it holds the socket mutex,
\* and none acquires the running-flag mutex while holding it.
C26_NoMutexHeldAcrossSocketOperation ==
    /\ ~(lpc = "c_dial" /\ wsLock = "connect")
    /\ ~(spc \in {"st_check", "st_close"} /\ wsLock = "stop" /\ ws # NilConn)

\* C27: a request frame is only ever written to a request socket whose
\* handshake has been accepted.
C27_WritesOnlyAfterHandshake ==
    [][ (wire' # wire /\ wire' # {}) => hs[ws] = "ok" ]_vars

\* C28: Subscribe returns only at the worker's hand-off of the unsubscribe
\* handle, which happens after the first successful dial and at no later one:
\* after a redial the worker finds the flag reset and skips the channel send,
\* and while no dial has succeeded Subscribe has not returned.
C28_HandlePublishedOnce ==
    /\ [](subpc = "returned" => (NumSubDialed >= 1 /\ ~needsPublish))
    /\ [](wpc = "w_publish" => (needsPublish <=> NumSubDialed = 1))
    /\ [](needsPublish <=> subpc \in {"idle", "waiting"})
    /\ [][ (subpc' # subpc /\ subpc' = "returned") =>
               (wpc = "w_publish" /\ needsPublish /\ NumSubDialed = 1) ]_vars

\* the worker has passed the hand-off after a redial, Subscribe having
\* returned at the first dial
C28_PassedPublishAfterRedial ==
    /\ subpc = "returned"
    /\ NumSubDialed = 2
    /\ wpc = "w_reco"

\* C29: runQueryFunc returns from an attempt with the operation's result or
\* with a classified error that is not CannotCommunicate, having called no
\* retry function for that attempt; only a CannotCommunicate error reaches
\* the retry function, which is the context's if set and the default one
\* otherwise, once per failed attempt; a non-nil result of it and a passed
\* deadline end the call; every further attempt follows an increase of try
\* by exactly one.
C29_RetriesOnlyCommunicationErrors ==
    /\ [](qpc \in {"q_retry", "q_deadline", "q_sleep"} => qerr = "CannotCommunicate")
    /\ [](attempts = IF qpc = "idle" THEN 0
                     ELSE IF qpc = "q_op" THEN try ELSE try + 1)
    /\ [](Len(retryCalls) =
            IF ~(mctxRetryFunc \/ defaultRetryFunc) THEN 0
            ELSE IF qpc \in {"idle", "q_op", "q_retry"} THEN try
            ELSE IF qpc = "returned" /\ qres.out = "out" THEN try
            ELSE try + 1)
    /\ [](\A i \in 1..Len(retryCalls) :
            /\ retryCalls[i].try = i - 1
            /\ retryCalls[i].err = "CannotCommunicate"
            /\ retryCalls[i].fn = IF mctxRetryFunc THEN "mctx" ELSE "default")
    /\ [][ (qpc # "returned" /\ qpc' = "returned") =>
             \/ /\ qpc = "q_op"
                /\ qres'.out = "out"
                /\ qres'.err = qerr'
                /\ qerr' # "CannotCommunicate"
                /\ retryCalls' = retryCalls
             \/ /\ qpc = "q_retry"
                /\ qres' = [out |-> "nil", err |-> "retryError"]
             \/ /\ qpc = "q_deadline"
                /\ hasDeadline
                /\ qres' = [out |-> "nil", err |-> "CannotExecuteQuery"] ]_vars
    /\ [][ (try' # try \/ (qpc # "q_op" /\ qpc' = "q_op" /\ qpc # "idle")) =>
             (qpc = "q_sleep" /\ qpc' = "q_op" /\ try' = try + 1) ]_vars

\* two communication failures, two calls of the retry function, then the
\* deadline has passed
C29_DeadlineAfterTwoRetries ==
    /\ qpc = "returned"
    /\ try = 1
    /\ Len(retryCalls) = 2
    /\ qres = [out |-> "nil", err |-> "CannotExecuteQuery"]

\* C30: when Commit(id) returns nil, the objects written under id by the
\* operations that returned nil are in the database and the objects deleted
\* under id are not.
C30_CommitMakesWritesVisible ==
    [][ (mret' # mret /\ mret'.op = "commit" /\ mret'.result = "nil") =>
            db' = (db \cup wrote[mret'.tid].ins) \ wrote[mret'.tid].del ]_vars

====
